---------------------------- MODULE Spec2Model ----------------------------
(***************************************************************************)
(* The LS factor of scripts/02_calculate_ls_factor.py: main() and the      *)
(* stages it chains (reproject_raster, light_carve, slope_degrees,         *)
(* d8_flow_direction, flow_accumulation_cells, compute_ls), and            *)
(* load_factor of scripts/07_calculate_soil_loss.py, which reads the       *)
(* raster main() writes.                                                   *)
(* utm_epsg_from_lonlat is modelled on its own, and the traversal of       *)
(* flow_accumulation_cells carries the history of the cells it dequeued.   *)
(*                                                                         *)
(* A grid is a function from its cells <<i, j>> (row, column, 0-based).    *)
(* Elevations are integers in units of 1/144 m, so that the neighbour      *)
(* means light_carve takes in its two passes are exact.  NaN (masked /     *)
(* no-data) is a value no elevation of the model takes.                    *)
(***************************************************************************)
EXTENDS Integers, Sequences, FiniteSets, TLC

\* ------------------------------------------------------------------ bounds
\* Grids have 3..MaxDim rows and 3..MaxDim columns.
MaxDim == 4
\* Input elevations are 0..MaxElev metres.
MaxElev == 2
\* An input DEM differs from a uniform surface in at most MaxRelief cells.
MaxRelief == 2
\* An arbitrary direction grid has at most MaxDefined cells with a direction.
MaxDefined == 2
\* A DEM file that main reads differs from a uniform surface in at most
\* MaxReliefMain cells.
MaxReliefMain == 1

\* Longitudes and latitudes are multiples of 1/PerDegree degree.
PerDegree == 4

\* ------------------------------------------------------------- the program
NaN == -1

Unit == 12 * 12

_NEIGHBORS ==
    << <<-1, -1>>, <<-1, 0>>, <<-1, 1>>,
       << 0, -1>>,            << 0, 1>>,
       << 1, -1>>, << 1, 0>>, << 1, 1>> >>

Cells(h, w) == (0 .. h - 1) \X (0 .. w - 1)

\* h, w = z.shape
Rows(z) == Cardinality({c[1] : c \in DOMAIN z})
Cols(z) == Cardinality({c[2] : c \in DOMAIN z})

\* for i in range(h): for j in range(w)
RowMajor(h, w) == [n \in 1 .. h * w |-> <<(n - 1) \div w, (n - 1) % w>>]

\* The cell i+di, j+dj that offset k of _NEIGHBORS names from cell c, as the
\* code computes it (it may lie outside the grid).
Offset(c, k) == <<c[1] + _NEIGHBORS[k + 1][1], c[2] + _NEIGHBORS[k + 1][2]>>

\* numpy indexing of one axis of length n: -1 is the last element, n and
\* above raise IndexError
PyIndex(i, n) == IF i < 0 THEN i + n ELSE i

OutOfBounds(t, h, w) == t[1] >= h \/ t[2] >= w

Wrap(t, h, w) == <<PyIndex(t[1], h), PyIndex(t[2], w)>>

\* range(1, h-1) x range(0, w-1): an off-by-one in the column loop
Interior_from0(h, w) == (1 .. h - 2) \X (0 .. w - 2)

\* range(1, h-1) x range(1, w-1)
Interior(h, w) == (1 .. h - 2) \X (1 .. w - 2)

\* ---- variants of the neighbour scan that the claims must tell apart
\* `drop >= max_drop`: the last of several steepest neighbours wins
RECURSIVE d8_scan_ge(_, _, _, _, _)
d8_scan_ge(z, c, k, max_drop, best_k) ==
    IF k > 7 THEN best_k
    ELSE LET nij == z[Wrap(Offset(c, k), Rows(z), Cols(z))]
         IN  IF nij = NaN THEN d8_scan_ge(z, c, k + 1, max_drop, best_k)
             ELSE LET drop == z[c] - nij
                  IN  IF drop >= max_drop /\ drop > 0
                      THEN d8_scan_ge(z, c, k + 1, drop, k)
                      ELSE d8_scan_ge(z, c, k + 1, max_drop, best_k)

\* max_drop is never updated: the last lower neighbour wins, steepest or not
RECURSIVE d8_scan_any(_, _, _, _, _)
d8_scan_any(z, c, k, max_drop, best_k) ==
    IF k > 7 THEN best_k
    ELSE LET nij == z[Wrap(Offset(c, k), Rows(z), Cols(z))]
         IN  IF nij = NaN THEN d8_scan_any(z, c, k + 1, max_drop, best_k)
             ELSE LET drop == z[c] - nij
                  IN  IF drop > max_drop
                      THEN d8_scan_any(z, c, k + 1, max_drop, k)
                      ELSE d8_scan_any(z, c, k + 1, max_drop, best_k)

\* the no-data test is missing and no-data is a low number, not NaN
RECURSIVE d8_scan_sentinel(_, _, _, _, _)
d8_scan_sentinel(z, c, k, max_drop, best_k) ==
    IF k > 7 THEN best_k
    ELSE LET nij == z[Wrap(Offset(c, k), Rows(z), Cols(z))]
             drop == z[c] - nij
         IN  IF drop > max_drop
             THEN d8_scan_sentinel(z, c, k + 1, drop, k)
             ELSE d8_scan_sentinel(z, c, k + 1, max_drop, best_k)

\* the drop is taken the wrong way round: neighbour minus cell
RECURSIVE d8_scan_uphill(_, _, _, _, _)
d8_scan_uphill(z, c, k, max_drop, best_k) ==
    IF k > 7 THEN best_k
    ELSE LET nij == z[Wrap(Offset(c, k), Rows(z), Cols(z))]
         IN  IF nij = NaN THEN d8_scan_uphill(z, c, k + 1, max_drop, best_k)
             ELSE LET drop == nij - z[c]
                  IN  IF drop > max_drop
                      THEN d8_scan_uphill(z, c, k + 1, drop, k)
                      ELSE d8_scan_uphill(z, c, k + 1, max_drop, best_k)

\* `drop >= max_drop`: a neighbour at the same elevation counts as downslope
RECURSIVE d8_scan_flat(_, _, _, _, _)
d8_scan_flat(z, c, k, max_drop, best_k) ==
    IF k > 7 THEN best_k
    ELSE LET nij == z[Wrap(Offset(c, k), Rows(z), Cols(z))]
         IN  IF nij = NaN THEN d8_scan_flat(z, c, k + 1, max_drop, best_k)
             ELSE LET drop == z[c] - nij
                  IN  IF drop >= max_drop
                      THEN d8_scan_flat(z, c, k + 1, drop, k)
                      ELSE d8_scan_flat(z, c, k + 1, max_drop, best_k)

\* ---- d8_flow_direction: the scan of the 8 neighbours of one cell
RECURSIVE d8_scan(_, _, _, _, _)
d8_scan(z, c, k, max_drop, best_k) ==
    IF k > 7 THEN best_k
    ELSE LET nij == z[Wrap(Offset(c, k), Rows(z), Cols(z))]
         IN  IF nij = NaN THEN d8_scan(z, c, k + 1, max_drop, best_k)
             ELSE LET drop == z[c] - nij
                  IN  IF drop > max_drop
                      THEN d8_scan(z, c, k + 1, drop, k)
                      ELSE d8_scan(z, c, k + 1, max_drop, best_k)

d8_flow_direction(z, h, w) ==
    [c \in Cells(h, w) |->
        IF c \in Interior(h, w) /\ z[c] # NaN
        THEN d8_scan(z, c, 0, 0, -1)
        ELSE -1]

\* ---- light_carve: one pass fills every NaN cell that has a valid
\* 4-neighbour with the mean of its valid 4-neighbours (up, dn, lf, rt).
Nbr4(c, h, w) ==
    {n \in {<<c[1] - 1, c[2]>>, <<c[1] + 1, c[2]>>,
            <<c[1], c[2] - 1>>, <<c[1], c[2] + 1>>} : n \in Cells(h, w)}

RECURSIVE SumOver(_, _)
SumOver(arr, S) ==
    IF S = {} THEN 0
    ELSE LET n == CHOOSE n \in S : TRUE
         IN  arr[n] + SumOver(arr, S \ {n})

nanmean(arr, c, h, w) ==
    LET valid == {n \in Nbr4(c, h, w) : arr[n] # NaN}
    IN  IF valid = {} THEN NaN
        ELSE SumOver(arr, valid) \div Cardinality(valid)

\* arr[:] instead of arr[mask]: every cell that has a valid 4-neighbour is
\* smoothed, valid or not
carve_pass_all(arr, h, w) ==
    [c \in Cells(h, w) |->
        IF nanmean(arr, c, h, w) = NaN THEN arr[c] ELSE nanmean(arr, c, h, w)]

carve_pass(arr, h, w) ==
    [c \in Cells(h, w) |->
        IF arr[c] = NaN THEN nanmean(arr, c, h, w) ELSE arr[c]]

HasNaN(arr) == \E c \in DOMAIN arr : arr[c] = NaN

\* range(1): a single pass
light_carve_once(dem, h, w) ==
    IF ~HasNaN(dem) THEN dem ELSE carve_pass(dem, h, w)

light_carve(dem, h, w) ==
    IF ~HasNaN(dem) THEN dem
    ELSE LET p1 == carve_pass(dem, h, w)
         IN  IF ~HasNaN(p1) THEN p1 ELSE carve_pass(p1, h, w)

\* ---- flow_accumulation_cells
\* `if k > 0`: a cell pointed at only through offset 0 (NW) is not counted
indeg_init_gt0(dir, h, w) ==
    [c \in Cells(h, w) |->
        Cardinality({s \in Interior(h, w) :
                        dir[s] > 0 /\ Wrap(Offset(s, dir[s]), h, w) = c})]

\* indeg after the first loop: only interior cells are visited.
indeg_init(dir, h, w) ==
    [c \in Cells(h, w) |->
        Cardinality({s \in Interior(h, w) :
                        dir[s] >= 0 /\ Wrap(Offset(s, dir[s]), h, w) = c})]

\* np.zeros instead of np.ones
acc_zeros(h, w) == [c \in Cells(h, w) |-> 0]

\* acc = np.ones((h,w)): each cell contributes itself
acc_ones(h, w) == [c \in Cells(h, w) |-> 1]

\* every cell is seeded, whatever its in-degree
seed_queue_all(deg, h, w) == RowMajor(h, w)

\* the seeding loops run over range(1, h-1) x range(1, w-1), as the first
\* loop does: no border cell is seeded
seed_queue_interior(deg, h, w) ==
    SelectSeq(RowMajor(h, w), LAMBDA c : c \in Interior(h, w) /\ deg[c] = 0)

\* `if indeg[i, j] <= 1`: a cell with one pointer is seeded as well
seed_queue_le1(deg, h, w) ==
    SelectSeq(RowMajor(h, w), LAMBDA c : deg[c] <= 1)

\* the seeds in the order the double loop appends them
seed_queue(deg, h, w) ==
    SelectSeq(RowMajor(h, w), LAMBDA c : deg[c] = 0)

\* ---- slope_degrees
\* np.roll(z, ...): the value that a shift brings to cell c from the cell
\* (di, dj) away, wrapping around the grid
Rolled(z, c, di, dj, h, w) == z[<<(c[1] + di) % h, (c[2] + dj) % w>>]

\* np.nan_to_num(dzdx) * 8 * sx: the Sobel difference of the east and west
\* columns of the 3x3 window, 0 where any of its six cells is NaN
dzdx(z, c, h, w) ==
    LET z00 == Rolled(z, c, -1, -1, h, w)
        z02 == Rolled(z, c, -1, 1, h, w)
        z10 == Rolled(z, c, 0, -1, h, w)
        z12 == Rolled(z, c, 0, 1, h, w)
        z20 == Rolled(z, c, 1, -1, h, w)
        z22 == Rolled(z, c, 1, 1, h, w)
    IN  IF NaN \in {z00, z02, z10, z12, z20, z22} THEN 0
        ELSE (z02 + 2 * z12 + z22) - (z00 + 2 * z10 + z20)

\* np.nan_to_num(dzdy) * 8 * sy: the south and north rows
dzdy(z, c, h, w) ==
    LET z00 == Rolled(z, c, -1, -1, h, w)
        z01 == Rolled(z, c, -1, 0, h, w)
        z02 == Rolled(z, c, -1, 1, h, w)
        z20 == Rolled(z, c, 1, -1, h, w)
        z21 == Rolled(z, c, 1, 0, h, w)
        z22 == Rolled(z, c, 1, 1, h, w)
    IN  IF NaN \in {z00, z01, z02, z20, z21, z22} THEN 0
        ELSE (z20 + 2 * z21 + z22) - (z00 + 2 * z01 + z02)

\* A slope is kept as tan(slope)^2 in units of 1 / (8 * sx * Unit)^2, the
\* sum of the squared Sobel differences (sx = sy = dst_res_m): arctan, sqrt
\* and degrees are increasing, so order and zero are those of the slope in
\* degrees.  The 1-pixel border is masked (NaN).
slope_degrees(z, h, w) ==
    [c \in Cells(h, w) |->
        IF c \in Interior(h, w)
        THEN dzdx(z, c, h, w) * dzdx(z, c, h, w)
                + dzdy(z, c, h, w) * dzdy(z, c, h, w)
        ELSE NaN]

\* ---- compute_ls
\* 0.1 degree in the unit of slope_degrees:
\* (tan(0.1 deg) * 8 * 90 * 144)^2 = 32745.04
MIN_SLOPE_DEG == 32745

NODATA_F == -9999

\* dst_res_m = 90.0, which is abs(prof_m["transform"].a)
dst_res_m == 90

\* A float of the LS grids is a pair: <<A, s>> with A > 0 and s > 0 stands
\* for (A / 22.13)^M_EXP * sin(s)^N_EXP, which is positive; <<x, 0>> is the
\* literal x (0.0 or the sentinel -9999.0).
Lit(x) == <<x, 0>>

FNaN == <<NaN, NaN>>

\* the cell of a masked array that is masked
MASKED == <<0, NaN>>

\* L * S: zero when a factor is zero, NaN when a factor is NaN or a
\* negative number is raised to a fractional power
LS(A, s) ==
    IF A < 0 \/ s < 0 THEN FNaN
    ELSE IF A = 0 \/ s = 0 THEN Lit(0)
    ELSE <<A, s>>

\* x < 0.0
Negative(v) == v[2] = 0 /\ v[1] < 0

\* negative values are reported but left as they are
maximum0_keep(v) == v

\* np.maximum(v, 0.0), np.ma.maximum(v, 0.0): NaN and masked cells stay
maximum0(v) == IF Negative(v) THEN Lit(0) ELSE v

\* a.filled(x) at one cell
filled(v, x) == IF v = MASKED THEN x ELSE v

\* np.ma.masked_invalid at one cell
masked_invalid(v) == IF v = FNaN THEN MASKED ELSE v

\* np.ma.masked_equal(a, x) at one cell
masked_equal(v, x) == IF v = x THEN MASKED ELSE v

Max(a, b) == IF a >= b THEN a ELSE b

\* the slope is used as it is: no floor
compute_ls_nofloor(acc_cells, slope, cellsize_m, h, w) ==
    [c \in Cells(h, w) |->
        LET A == Max(acc_cells[c], 1) * cellsize_m
            slope_safe_deg == IF slope[c] = NaN THEN 0 ELSE slope[c]
        IN  masked_invalid(LS(A, slope_safe_deg))]

compute_ls(acc_cells, slope, cellsize_m, h, w) ==
    [c \in Cells(h, w) |->
        LET A == Max(acc_cells[c], 1) * cellsize_m
            slope_safe_deg ==
                Max(IF slope[c] = NaN THEN 0 ELSE slope[c], MIN_SLOPE_DEG)
        IN  masked_invalid(LS(A, slope_safe_deg))]


\* ---- rasterio.warp.reproject, as main and reproject_raster call it
\* The grid geometries of the model.  "aligned": the metric grid has the
\* cells of the DEM grid.  "padded": the metric grid has one more column,
\* on the west, that no DEM cell covers (the bounding box of a reprojected
\* footprint is larger than the footprint).  In both the cell centres
\* coincide, so that bilinear and nearest resampling give a destination cell
\* the value of the one source cell under it.
Geoms == {"aligned", "padded"}

\* the DEM-grid cell under the metric cell c, <<>> if there is none
SrcOfMetric(g, c) ==
    IF g = "aligned" THEN c
    ELSE IF c[2] >= 1 THEN <<c[1], c[2] - 1>>
    ELSE <<>>

\* the metric cell under the DEM-grid cell c
SrcOfLL(g, c) == IF g = "aligned" THEN c ELSE <<c[1], c[2] + 1>>

\* dem_ll.shape, for a metric grid of h rows and w columns
LLShape(g, h, w) == IF g = "aligned" THEN <<h, w>> ELSE <<h, w - 1>>

\* src_of gives each destination cell the source cell under it.  The
\* destination starts filled with dst_nodata; a destination cell with no
\* source cell, or whose source cell holds src_nodata, keeps it.
warp_reproject(source, src_of, src_nodata, dst_nodata) ==
    [c \in DOMAIN src_of |->
        IF src_of[c] = <<>> THEN dst_nodata
        ELSE IF source[src_of[c]] = src_nodata THEN dst_nodata
        ELSE source[src_of[c]]]

\* ---- reproject_raster
\* nodata = src_profile.get("nodata"), NODATA_F if it is None; <<>> is None.
\* Elevation grids hold it in elevation units.
profile_nodata(nodata_opt) ==
    IF nodata_opt = <<>> THEN NODATA_F * Unit ELSE nodata_opt[1] * Unit

reproject_raster(data, nodata_opt, g, h, w) ==
    warp_reproject(data, [c \in Cells(h, w) |-> SrcOfMetric(g, c)],
                   profile_nodata(nodata_opt), profile_nodata(nodata_opt))

\* ---- reproject_mask: nearest, 0 is no-data, normalised to 0/1
reproject_mask(mask_data, g, h, w) ==
    [c \in Cells(h, w) |->
        IF warp_reproject(mask_data, [d \in Cells(h, w) |-> SrcOfMetric(g, d)],
                          0, 0)[c] > 0
        THEN 1 ELSE 0]

\* main, step 2: the masked DEM is filled with NODATA_F, reprojected, and the
\* cells that hold the no-data value of the metric profile are masked
project_dem(dem, nodata_opt, g, h, w) ==
    LET data == [c \in DOMAIN dem |->
                    IF dem[c] = NaN THEN NODATA_F * Unit ELSE dem[c]]
        dst == reproject_raster(data, nodata_opt, g, h, w)
    IN  [c \in Cells(h, w) |->
            IF dst[c] = profile_nodata(nodata_opt) THEN NaN ELSE dst[c]]

\* the mask is not applied
mask_outside_skip(a, aoi) == a

\* np.ma.array(a, mask=np.logical_or(a.mask, aoi == 0))
mask_outside(a, aoi) ==
    [c \in DOMAIN a |-> IF a[c] = MASKED \/ aoi[c] = 0 THEN MASKED ELSE a[c]]

\* (aoi_ll > 0).astype(np.uint8)
Binary(mask) == [c \in DOMAIN mask |-> IF mask[c] > 0 THEN 1 ELSE 0]

\* src.read(1, masked=True): the cells that hold the declared no-data value
\* are masked
read_masked(file, nodata_opt) ==
    [c \in DOMAIN file |->
        IF nodata_opt # <<>> /\ file[c] = nodata_opt[1] * Unit
        THEN NaN ELSE file[c]]


\* ---- load_factor (scripts/07_calculate_soil_loss.py)
NODATA == -9999

\* The floats of a factor raster are the literals Lit(x), x an integer, and
\* FNaN.  float32 has 24 bits of mantissa: between 2^24 and 2^25 only the
\* even integers exist, and a tie goes to the even mantissa.
astype_float32(v) ==
    IF v = FNaN THEN v
    ELSE LET x == IF v[1] < 0 THEN -v[1] ELSE v[1]
             half == x \div 2
             r == IF x <= 2 ^ 24 \/ x % 2 = 0 THEN x
                  ELSE 2 * (half + (half % 2))
         IN  Lit(IF v[1] < 0 THEN -r ELSE r)

\* negative values are forced to 0 first, as main() of the LS script does
load_factor_clamp(arr, dem_prof_nodata, dem, aoi_mask, zero_ok) ==
    [c \in DOMAIN arr |->
        LET a0 == astype_float32(arr[c])
            a1 == IF aoi_mask # <<>> /\ aoi_mask[c] = 0 THEN Lit(NODATA) ELSE a0
            a2 == IF dem_prof_nodata # <<>> /\ dem[c] = dem_prof_nodata[1] * Unit
                  THEN Lit(NODATA) ELSE a1
        IN  IF Negative(a2) THEN Lit(0)
            ELSE IF a2 = FNaN \/ (~zero_ok /\ a2 = Lit(0)) THEN Lit(NODATA)
            ELSE a2]

\* The raster is on the DEM grid (the fast path of lines 1215-1219); <<>> is
\* None, for the AOI mask and for the no-data value of the DEM profile.
load_factor(arr, dem_prof_nodata, dem, aoi_mask, zero_ok) ==
    [c \in DOMAIN arr |->
        LET a0 == astype_float32(arr[c])
            a1 == IF aoi_mask # <<>> /\ aoi_mask[c] = 0 THEN Lit(NODATA) ELSE a0
            a2 == IF dem_prof_nodata # <<>> /\ dem[c] = dem_prof_nodata[1] * Unit
                  THEN Lit(NODATA) ELSE a1
            bad == IF zero_ok
                   THEN a2 = FNaN \/ Negative(a2)
                   ELSE a2 = FNaN \/ Negative(a2) \/ a2 = Lit(0)
        IN  IF bad THEN Lit(NODATA) ELSE a2]

\* ---- utm_epsg_from_lonlat
\* lon and lat in units of 1/PerDegree degree; // is the floor division.  The
\* string f"EPSG:{epsg}" is the authority and the number.
utm_epsg_from_lonlat(lon, lat) ==
    LET zone == ((lon + 180 * PerDegree) \div (6 * PerDegree)) + 1
        epsg == IF lat >= 0 THEN 32600 + zone ELSE 32700 + zone
    IN  <<"EPSG", epsg>>

VARIABLES
    \* the terrain stages, on the metric grid
    shape, dem_m, dem_carved, slope_deg, dir_idx, indeg, acc, q, ls_m,
    \* history: the cells flow_accumulation_cells has taken off its queue,
    \* in that order
    popped,
    \* main(): its inputs, what it persists, logs and returns
    geom, dem_exists, nodata_ll, dem_ll, aoi_exists, aoi_ll,
    ls_match, ls_tif, written, log, ret,
    \* load_factor of scripts/07_calculate_soil_loss.py: the factor raster,
    \* the zero policy, the grid it returns, and the grid it returns when
    \* given that grid again
    factor, allow_zero, aligned, realigned,
    \* utm_epsg_from_lonlat: the centre of the DEM and the code it returns
    center_lon, center_lat, metric_epsg,
    \* the position in main() / in the function under study
    pc

\* what the terrain stages read and write
terrain ==
    <<shape, dem_m, dem_carved, slope_deg, dir_idx, indeg, acc, q, ls_m,
      popped>>

\* what only main() reads and writes
io == <<geom, dem_exists, nodata_ll, dem_ll, aoi_exists, aoi_ll,
        ls_match, ls_tif, written, log, ret>>

\* what only load_factor reads and writes
loader == <<factor, allow_zero, aligned, realigned>>

\* what only utm_epsg_from_lonlat reads and writes
crs == <<center_lon, center_lat, metric_epsg>>

vars == <<terrain, io, loader, crs, pc>>

H == shape[1]
W == shape[2]

Shapes == (3 .. MaxDim) \X (3 .. MaxDim)

Flat(h, w, v) == [c \in Cells(h, w) |-> v]

\* ----------------------------------------------------------------- inputs
\* the subsets of S with at most k elements
RECURSIVE SubsetsUpTo(_, _)
SubsetsUpTo(S, k) ==
    IF k = 0 THEN {{}}
    ELSE LET P == SubsetsUpTo(S, k - 1)
         IN  P \cup {p \cup {x} : p \in P, x \in S}

Levels == {e * Unit : e \in 0 .. MaxElev}

\* DEMs that differ from a uniform surface (or from an all-no-data grid) in
\* at most MaxRelief cells
DemFamily(h, w, k) ==
    {[c \in Cells(h, w) |-> IF c \in DOMAIN r THEN r[c] ELSE bg] :
        bg \in Levels \cup {NaN},
        r \in UNION {[D -> Levels \cup {NaN}] :
                D \in SubsetsUpTo(Cells(h, w), k)}}

DemInputs(h, w) == DemFamily(h, w, MaxRelief)

\* the DEM files main reads: a DEM of the family with its no-data cells
\* holding the declared sentinel (none are no-data if none is declared)
DemFiles(h, w, k, nodata_opt) ==
    {[c \in Cells(h, w) |->
            IF d[c] = NaN THEN nodata_opt[1] * Unit ELSE d[c]] :
        d \in {e \in DemFamily(h, w, k) : nodata_opt = <<>> => ~HasNaN(e)}}

\* the AOI rasters: the k western columns are inside (255), the rest is
\* outside (0); k = 0 is an empty mask
AoiInputs(h, w) ==
    {[c \in Cells(h, w) |-> IF c[2] < k THEN 255 ELSE 0] : k \in 0 .. w}

\* the 3x3 synthetic DEM of the concrete scenario
Dem3x3 ==
    LET rows == << <<9, 8, 7>>, <<8, 5, 6>>, <<7, 6, 4>> >>
    IN  [c \in Cells(3, 3) |-> rows[c[1] + 1][c[2] + 1] * Unit]

\* direction grids with at most MaxDefined directed cells (any of the 8
\* offsets, at any cell)
DirInputs(h, w) ==
    {[c \in Cells(h, w) |-> IF c \in DOMAIN r THEN r[c] ELSE -1] :
        r \in UNION {[D -> 0 .. 7] :
                D \in SubsetsUpTo(Cells(h, w), MaxDefined)}}

\* the values of a factor raster: not a number, the sentinel, a negative
\* number, zero, a small number, a number float32 cannot hold
FactorValues ==
    {FNaN, Lit(NODATA), Lit(-1), Lit(0), Lit(1), Lit(2 ^ 24 + 1)}

\* factor rasters that hold one value except in at most MaxReliefMain cells
FactorInputs(h, w) ==
    {[c \in Cells(h, w) |-> IF c \in DOMAIN r THEN r[c] ELSE bg] :
        bg \in FactorValues,
        r \in UNION {[D -> FactorValues] :
                D \in SubsetsUpTo(Cells(h, w), MaxReliefMain)}}

\* the values of an LS grid: a positive LS value, zero, a negative value,
\* a masked cell
LsValues == {LS(dst_res_m, MIN_SLOPE_DEG), Lit(0), Lit(-1), MASKED}

\* LS grids that hold one value except in at most MaxReliefMain cells
LsInputs(h, w) ==
    {[c \in Cells(h, w) |-> IF c \in DOMAIN r THEN r[c] ELSE bg] :
        bg \in LsValues,
        r \in UNION {[D -> LsValues] :
                D \in SubsetsUpTo(Cells(h, w), MaxReliefMain)}}

\* the DEMs load_factor is given: the k northern rows hold v, the rest 0 m
RowDems(h, w, v) ==
    {[c \in Cells(h, w) |-> IF c[1] < k THEN v ELSE 0] : k \in 0 .. h}

\* ---------------------------------------------------------------- actions
\* main, step 3: dem_carved = light_carve(dem_m, ...)
LightCarve ==
    /\ pc = "carve"
    /\ dem_carved' = light_carve(dem_m, H, W)
    /\ pc' = "slope"
    /\ UNCHANGED <<shape, dem_m, slope_deg, dir_idx, indeg, acc, q, popped,
                   ls_m>>
    /\ UNCHANGED io
    /\ UNCHANGED loader
    /\ UNCHANGED crs

\* the 1-pixel border is masked in the elevation grid itself, not in a copy
\* of the slope grid
SlopeDegrees_inplace ==
    /\ pc = "slope"
    /\ slope_deg' = slope_degrees(dem_carved, H, W)
    /\ dem_carved' = [c \in Cells(H, W) |->
                        IF c \in Interior(H, W) THEN dem_carved[c] ELSE NaN]
    /\ pc' = "d8"
    /\ UNCHANGED <<shape, dem_m, dir_idx, indeg, acc, q, popped, ls_m>>
    /\ UNCHANGED io
    /\ UNCHANGED loader
    /\ UNCHANGED crs

\* main, step 4: slope_deg = slope_degrees(dem_carved, prof_m["transform"])
SlopeDegrees ==
    /\ pc = "slope"
    /\ slope_deg' = slope_degrees(dem_carved, H, W)
    /\ pc' = "d8"
    /\ UNCHANGED <<shape, dem_m, dem_carved, dir_idx, indeg, acc, q, popped,
                   ls_m>>
    /\ UNCHANGED io
    /\ UNCHANGED loader
    /\ UNCHANGED crs

\* main, step 5: dir_idx = d8_flow_direction(dem_carved)
D8FlowDirection ==
    /\ pc = "d8"
    /\ dir_idx' = d8_flow_direction(dem_carved, H, W)
    /\ pc' = "acc_init"
    /\ UNCHANGED <<shape, dem_m, dem_carved, slope_deg, indeg, acc, q, popped,
                   ls_m>>
    /\ UNCHANGED io
    /\ UNCHANGED loader
    /\ UNCHANGED crs

\* flow_accumulation_cells up to the while loop
AccInit ==
    /\ pc = "acc_init"
    /\ indeg' = indeg_init(dir_idx, H, W)
    /\ acc' = acc_ones(H, W)
    /\ q' = seed_queue(indeg', H, W)
    /\ popped' = <<>>
    /\ pc' = "acc_loop"
    /\ UNCHANGED <<shape, dem_m, dem_carved, slope_deg, dir_idx, ls_m>>
    /\ UNCHANGED io
    /\ UNCHANGED loader
    /\ UNCHANGED crs

\* `indeg[ii, jj] -= 1` is missing
AccStep_nodec ==
    /\ pc = "acc_loop"
    /\ q # <<>>
    /\ popped' = Append(popped, Head(q))
    /\ LET c == Head(q)
           k == dir_idx[c]
       IN  IF k < 0
           THEN /\ q' = Tail(q)
                /\ UNCHANGED <<acc, indeg, pc>>
           ELSE IF OutOfBounds(Offset(c, k), H, W)
           THEN /\ q' = Tail(q)
                /\ pc' = "IndexError"
                /\ UNCHANGED <<acc, indeg>>
           ELSE LET t == Wrap(Offset(c, k), H, W)
                IN  /\ acc' = [acc EXCEPT ![t] = @ + acc[c]]
                    /\ q' = IF indeg[t] = 0
                            THEN Append(Tail(q), t)
                            ELSE Tail(q)
                    /\ UNCHANGED <<indeg, pc>>
    /\ UNCHANGED <<shape, dem_m, dem_carved, slope_deg, dir_idx, ls_m>>
    /\ UNCHANGED io
    /\ UNCHANGED loader
    /\ UNCHANGED crs

\* `if indeg[ii, jj] <= 0`: a cell whose counter has gone below zero is
\* queued again
AccStep_le0 ==
    /\ pc = "acc_loop"
    /\ q # <<>>
    /\ popped' = Append(popped, Head(q))
    /\ LET c == Head(q)
           k == dir_idx[c]
       IN  IF k < 0
           THEN /\ q' = Tail(q)
                /\ UNCHANGED <<acc, indeg, pc>>
           ELSE IF OutOfBounds(Offset(c, k), H, W)
           THEN /\ q' = Tail(q)
                /\ pc' = "IndexError"
                /\ UNCHANGED <<acc, indeg>>
           ELSE LET t == Wrap(Offset(c, k), H, W)
                IN  /\ acc' = [acc EXCEPT ![t] = @ + acc[c]]
                    /\ indeg' = [indeg EXCEPT ![t] = @ - 1]
                    /\ q' = IF indeg'[t] <= 0
                            THEN Append(Tail(q), t)
                            ELSE Tail(q)
                    /\ UNCHANGED pc
    /\ UNCHANGED <<shape, dem_m, dem_carved, slope_deg, dir_idx, ls_m>>
    /\ UNCHANGED io
    /\ UNCHANGED loader
    /\ UNCHANGED crs

\* one iteration of `while q`
AccStep ==
    /\ pc = "acc_loop"
    /\ q # <<>>
    /\ popped' = Append(popped, Head(q))
    /\ LET c == Head(q)
           k == dir_idx[c]
       IN  IF k < 0
           THEN /\ q' = Tail(q)
                /\ UNCHANGED <<acc, indeg, pc>>
           ELSE IF OutOfBounds(Offset(c, k), H, W)
           THEN /\ q' = Tail(q)
                /\ pc' = "IndexError"
                /\ UNCHANGED <<acc, indeg>>
           ELSE LET t == Wrap(Offset(c, k), H, W)
                IN  /\ acc' = [acc EXCEPT ![t] = @ + acc[c]]
                    /\ indeg' = [indeg EXCEPT ![t] = @ - 1]
                    /\ q' = IF indeg'[t] = 0
                            THEN Append(Tail(q), t)
                            ELSE Tail(q)
                    /\ UNCHANGED pc
    /\ UNCHANGED <<shape, dem_m, dem_carved, slope_deg, dir_idx, ls_m>>
    /\ UNCHANGED io
    /\ UNCHANGED loader
    /\ UNCHANGED crs

\* the queue is empty: return acc
AccReturn ==
    /\ pc = "acc_loop"
    /\ q = <<>>
    /\ pc' = "done"
    /\ UNCHANGED <<terrain, io>>
    /\ UNCHANGED loader
    /\ UNCHANGED crs

\* main, step 6: ls_m = compute_ls(acc_cells, slope_deg, cellsize_m)
ComputeLS ==
    /\ pc = "done"
    /\ ls_m' = compute_ls(acc, slope_deg, dst_res_m, H, W)
    /\ pc' = "clamp"
    /\ UNCHANGED <<shape, dem_m, dem_carved, slope_deg, dir_idx, indeg, acc, q,
                   popped>>
    /\ UNCHANGED io
    /\ UNCHANGED loader
    /\ UNCHANGED crs

\* ---- main(), around the terrain stages
HL == LLShape(geom, H, W)[1]
WL == LLShape(geom, H, W)[2]

\* the existence of the DEM file is not tested
CheckDem_proceed ==
    /\ pc = "main"
    /\ pc' = "read"
    /\ UNCHANGED <<io, terrain>>
    /\ UNCHANGED loader
    /\ UNCHANGED crs

\* lines 404-406: without the DEM file main logs an error and returns False
CheckDem ==
    /\ pc = "main"
    /\ IF dem_exists
       THEN /\ pc' = "read"
            /\ UNCHANGED <<log, ret>>
       ELSE /\ log' = log \cup {<<"error", "DEM not found", 0>>}
            /\ ret' = "False"
            /\ pc' = "returned"
    /\ UNCHANGED <<geom, dem_exists, nodata_ll, dem_ll, aoi_exists, aoi_ll,
                   ls_match, ls_tif, written>>
    /\ UNCHANGED terrain
    /\ UNCHANGED loader
    /\ UNCHANGED crs

\* step 1: the DEM is read masked, the AOI raster is made binary
ReadInputs ==
    /\ pc = "read"
    /\ dem_ll' = read_masked(dem_ll, nodata_ll)
    /\ aoi_ll' = IF aoi_exists THEN Binary(aoi_ll) ELSE aoi_ll
    /\ pc' = "reproject"
    /\ UNCHANGED <<geom, dem_exists, nodata_ll, aoi_exists,
                   ls_match, ls_tif, written, log, ret>>
    /\ UNCHANGED terrain
    /\ UNCHANGED loader
    /\ UNCHANGED crs

\* step 2: dem_m = masked_equal(reproject_raster(dem_ll.filled(NODATA_F)))
ReprojectDem ==
    /\ pc = "reproject"
    /\ dem_m' = project_dem(dem_ll, nodata_ll, geom, H, W)
    /\ pc' = "aoi_m"
    /\ UNCHANGED <<shape, dem_carved, slope_deg, dir_idx, indeg, acc, q, popped,
                   ls_m>>
    /\ UNCHANGED io
    /\ UNCHANGED loader
    /\ UNCHANGED crs

\* lines 441-456: the AOI mask on the metric grid; an empty one is ignored
ApplyAoiMetric ==
    /\ pc = "aoi_m"
    /\ IF aoi_exists
       THEN LET aoi_m == reproject_mask(aoi_ll, geom, H, W)
            IN  IF \A c \in Cells(H, W) : aoi_m[c] = 0
                THEN /\ log' = log \cup
                            {<<"warning", "AOI mask empty; ignoring mask", 0>>}
                     /\ UNCHANGED dem_m
                ELSE /\ dem_m' = [c \in Cells(H, W) |->
                                    IF aoi_m[c] = 0 THEN NaN ELSE dem_m[c]]
                     /\ UNCHANGED log
       ELSE UNCHANGED <<dem_m, log>>
    /\ pc' = "carve"
    /\ UNCHANGED <<shape, dem_carved, slope_deg, dir_idx, indeg, acc, q, popped,
                   ls_m>>
    /\ UNCHANGED <<geom, dem_exists, nodata_ll, dem_ll, aoi_exists, aoi_ll,
                   ls_match, ls_tif, written, ret>>
    /\ UNCHANGED loader
    /\ UNCHANGED crs

\* the cells of a grid of LS floats that are negative once filled with 0.0
Negatives(a) == {c \in DOMAIN a : Negative(filled(a[c], Lit(0)))}

\* lines 477-482: negative values of ls_m are counted, reported and forced
\* to zero
ClampMetric ==
    /\ pc = "clamp"
    /\ LET neg_count == Cardinality(Negatives(ls_m))
       IN  log' = IF neg_count > 0
                  THEN log \cup
                        {<<"warning", "Negative LS values detected", neg_count>>}
                  ELSE log
    /\ ls_m' = [c \in Cells(H, W) |->
                    masked_invalid(maximum0(filled(ls_m[c], FNaN)))]
    /\ pc' = "reproject_back"
    /\ UNCHANGED <<shape, dem_m, dem_carved, slope_deg, dir_idx, indeg, acc, q,
                   popped>>
    /\ UNCHANGED <<geom, dem_exists, nodata_ll, dem_ll, aoi_exists, aoi_ll,
                   ls_match, ls_tif, written, ret>>
    /\ UNCHANGED loader
    /\ UNCHANGED crs

\* step 7: LS back on the DEM grid, the cells without a value masked
ReprojectBack ==
    /\ pc = "reproject_back"
    /\ LET source == [c \in Cells(H, W) |-> filled(ls_m[c], FNaN)]
           dst == warp_reproject(source,
                                 [c \in Cells(HL, WL) |-> SrcOfLL(geom, c)],
                                 FNaN, Lit(NODATA_F))
       IN  ls_match' = [c \in Cells(HL, WL) |->
                            masked_equal(dst[c], Lit(NODATA_F))]
    /\ pc' = "reapply_aoi"
    /\ UNCHANGED <<geom, dem_exists, nodata_ll, dem_ll, aoi_exists, aoi_ll,
                   ls_tif, written, log, ret>>
    /\ UNCHANGED terrain
    /\ UNCHANGED loader
    /\ UNCHANGED crs

\* lines 499-511: the AOI mask again, on the DEM grid (the AOI raster is on
\* that grid, so no realignment takes place)
ReapplyAoi ==
    /\ pc = "reapply_aoi"
    /\ ls_match' = IF aoi_exists THEN mask_outside(ls_match, aoi_ll)
                   ELSE ls_match
    /\ pc' = "final_clamp"
    /\ UNCHANGED <<geom, dem_exists, nodata_ll, dem_ll, aoi_exists, aoi_ll,
                   ls_tif, written, log, ret>>
    /\ UNCHANGED terrain
    /\ UNCHANGED loader
    /\ UNCHANGED crs

\* lines 513-519: negative values of ls_match are counted, reported and
\* forced to zero; the mask is preserved
FinalClamp ==
    /\ pc = "final_clamp"
    /\ LET neg2 == Cardinality(Negatives(ls_match))
       IN  log' = IF neg2 > 0
                  THEN log \cup
                        {<<"warning", "Negative LS values after reprojection",
                           neg2>>}
                  ELSE log
    /\ ls_match' = [c \in Cells(HL, WL) |-> maximum0(ls_match[c])]
    /\ pc' = "save"
    /\ UNCHANGED <<geom, dem_exists, nodata_ll, dem_ll, aoi_exists, aoi_ll,
                   ls_tif, written, ret>>
    /\ UNCHANGED terrain
    /\ UNCHANGED loader
    /\ UNCHANGED crs

\* the masked cells are written as the sentinel
save_geotiff_nan(data) == [c \in DOMAIN data |-> filled(data[c], FNaN)]

\* save_geotiff(out_tif, ls_match.filled(NODATA_F), out_prof)
save_geotiff(data) == [c \in DOMAIN data |-> filled(data[c], Lit(NODATA_F))]

\* step 8: the LS raster is written
Save ==
    /\ pc = "save"
    /\ ls_tif' = save_geotiff(ls_match)
    /\ written' = written \cup {"ls_factor.tif"}
    /\ pc' = "preview"
    /\ UNCHANGED <<geom, dem_exists, nodata_ll, dem_ll, aoi_exists, aoi_ll,
                   ls_match, log, ret>>
    /\ UNCHANGED terrain
    /\ UNCHANGED loader
    /\ UNCHANGED crs

\* lines 534-552: the preview figure, or a warning if it cannot be made
Preview ==
    /\ pc = "preview"
    /\ \E ok \in BOOLEAN :
        IF ok
        THEN /\ written' = written \cup {"ls_factor_map.png"}
             /\ UNCHANGED log
        ELSE /\ log' = log \cup
                    {<<"warning", "Could not create PNG preview", 0>>}
             /\ UNCHANGED written
    /\ pc' = "stats"
    /\ UNCHANGED <<geom, dem_exists, nodata_ll, dem_ll, aoi_exists, aoi_ll,
                   ls_match, ls_tif, ret>>
    /\ UNCHANGED terrain
    /\ UNCHANGED loader
    /\ UNCHANGED crs

\* the values export_ls_stats_csv takes its statistics over
stats_vals(arr) == {c \in DOMAIN arr : arr[c] # FNaN /\ arr[c] # Lit(NODATA_F)}

\* lines 554-563: the statistics file (skipped when no pixel is valid or
\* when the export fails), then main returns True
ExportStats ==
    /\ pc = "stats"
    /\ \E ok \in BOOLEAN :
        IF stats_vals(ls_tif) = {}
        THEN /\ log' = log \cup
                    {<<"warning", "LS stats CSV: no valid pixels", 0>>}
             /\ UNCHANGED written
        ELSE IF ok
        THEN /\ written' = written \cup {"ls_factor_stats.csv"}
             /\ UNCHANGED log
        ELSE /\ log' = log \cup
                    {<<"error", "Failed to export LS stats CSV", 0>>}
             /\ UNCHANGED written
    /\ ret' = "True"
    /\ pc' = "returned"
    /\ UNCHANGED <<geom, dem_exists, nodata_ll, dem_ll, aoi_exists, aoi_ll,
                   ls_match, ls_tif>>
    /\ UNCHANGED terrain
    /\ UNCHANGED loader
    /\ UNCHANGED crs


\* read_dem_and_pick_metric_crs, line 130
PickMetricCrs ==
    /\ pc = "pick"
    /\ metric_epsg' = utm_epsg_from_lonlat(center_lon, center_lat)
    /\ pc' = "picked"
    /\ UNCHANGED <<center_lon, center_lat>>
    /\ UNCHANGED <<terrain, io, loader>>

\* ---- load_factor, called on a raster and again on what it returned
AoiMask == IF aoi_exists THEN aoi_ll ELSE <<>>

LoadFactor ==
    /\ pc = "load"
    /\ aligned' = load_factor(factor, nodata_ll, dem_ll, AoiMask, allow_zero)
    /\ pc' = "reload"
    /\ UNCHANGED <<factor, allow_zero, realigned>>
    /\ UNCHANGED <<terrain, io, crs>>

ReloadFactor ==
    /\ pc = "reload"
    /\ realigned' = load_factor(aligned, nodata_ll, dem_ll, AoiMask, allow_zero)
    /\ pc' = "loaded"
    /\ UNCHANGED <<factor, allow_zero, aligned>>
    /\ UNCHANGED <<terrain, io, crs>>


\* ---------------------------------------------------------- specifications
\* load_factor is not running
LoaderIdle ==
    /\ factor = <<>>
    /\ allow_zero = FALSE
    /\ aligned = <<>>
    /\ realigned = <<>>

\* utm_epsg_from_lonlat is not running
CrsIdle ==
    /\ center_lon = 0
    /\ center_lat = 0
    /\ metric_epsg = <<>>

\* main() is not running: its inputs and outputs are not looked at
IoIdle ==
    /\ geom = "aligned"
    /\ dem_exists = TRUE
    /\ nodata_ll = <<NODATA_F>>
    /\ dem_ll = <<>>
    /\ aoi_exists = FALSE
    /\ aoi_ll = <<>>
    /\ ls_match = <<>>
    /\ ls_tif = <<>>
    /\ written = {}
    /\ log = {}
    /\ ret = ""

\* main() from the metric DEM on
Init ==
    /\ shape \in Shapes
    /\ dem_m \in DemInputs(shape[1], shape[2]) \cup
                    (IF shape = <<3, 3>> THEN {Dem3x3} ELSE {})
    /\ dem_carved = Flat(shape[1], shape[2], NaN)
    /\ slope_deg = Flat(shape[1], shape[2], NaN)
    /\ dir_idx = Flat(shape[1], shape[2], -1)
    /\ indeg = Flat(shape[1], shape[2], 0)
    /\ acc = Flat(shape[1], shape[2], 1)
    /\ q = <<>>
    /\ popped = <<>>
    /\ ls_m = Flat(shape[1], shape[2], MASKED)
    /\ IoIdle
    /\ LoaderIdle
    /\ CrsIdle
    /\ pc = "carve"

Next ==
    \/ LightCarve
    \/ SlopeDegrees
    \/ D8FlowDirection
    \/ AccInit
    \/ AccStep
    \/ AccReturn
    \/ ComputeLS

Spec == Init /\ [][Next]_vars

\* d8_flow_direction on an arbitrary elevation grid, then accumulation
InitD8 ==
    /\ shape \in Shapes
    /\ dem_carved \in DemInputs(shape[1], shape[2]) \cup
                    (IF shape = <<3, 3>> THEN {Dem3x3} ELSE {})
    /\ dem_m = dem_carved
    /\ slope_deg = Flat(shape[1], shape[2], NaN)
    /\ dir_idx = Flat(shape[1], shape[2], -1)
    /\ indeg = Flat(shape[1], shape[2], 0)
    /\ acc = Flat(shape[1], shape[2], 1)
    /\ q = <<>>
    /\ popped = <<>>
    /\ ls_m = Flat(shape[1], shape[2], MASKED)
    /\ IoIdle
    /\ LoaderIdle
    /\ CrsIdle
    /\ pc = "d8"

NextD8 == D8FlowDirection \/ AccInit \/ AccStep \/ AccReturn

SpecD8 == InitD8 /\ [][NextD8]_vars

\* flow_accumulation_cells on an arbitrary direction grid
InitDir ==
    /\ shape \in Shapes
    /\ dir_idx \in DirInputs(shape[1], shape[2])
    /\ dem_m = Flat(shape[1], shape[2], 0)
    /\ dem_carved = dem_m
    /\ slope_deg = Flat(shape[1], shape[2], NaN)
    /\ indeg = Flat(shape[1], shape[2], 0)
    /\ acc = Flat(shape[1], shape[2], 1)
    /\ q = <<>>
    /\ popped = <<>>
    /\ ls_m = Flat(shape[1], shape[2], MASKED)
    /\ IoIdle
    /\ LoaderIdle
    /\ CrsIdle
    /\ pc = "acc_init"

NextDir == AccInit \/ AccStep \/ AccReturn

SpecDir == InitDir /\ [][NextDir]_vars

\* the same, with the loop running on as long as the queue is not empty
SpecDirLive == InitDir /\ [][NextDir]_vars /\ WF_vars(NextDir)

\* main() as a whole
InitMain ==
    /\ shape \in Shapes
    /\ geom \in Geoms
    /\ dem_exists \in BOOLEAN
    /\ nodata_ll = <<NODATA_F>>
    /\ dem_ll \in IF dem_exists
                  THEN DemFiles(LLShape(geom, shape[1], shape[2])[1],
                                LLShape(geom, shape[1], shape[2])[2],
                                MaxReliefMain, nodata_ll)
                  ELSE {<<>>}
    /\ aoi_exists \in BOOLEAN
    /\ aoi_ll \in IF aoi_exists
                  THEN AoiInputs(LLShape(geom, shape[1], shape[2])[1],
                                 LLShape(geom, shape[1], shape[2])[2])
                  ELSE {<<>>}
    /\ dem_m = Flat(shape[1], shape[2], NaN)
    /\ dem_carved = Flat(shape[1], shape[2], NaN)
    /\ slope_deg = Flat(shape[1], shape[2], NaN)
    /\ dir_idx = Flat(shape[1], shape[2], -1)
    /\ indeg = Flat(shape[1], shape[2], 0)
    /\ acc = Flat(shape[1], shape[2], 1)
    /\ q = <<>>
    /\ popped = <<>>
    /\ ls_m = Flat(shape[1], shape[2], MASKED)
    /\ ls_match = <<>>
    /\ ls_tif = <<>>
    /\ written = {}
    /\ log = {}
    /\ ret = ""
    /\ LoaderIdle
    /\ CrsIdle
    /\ pc = "main"

NextMain ==
    \/ CheckDem
    \/ ReadInputs
    \/ ReprojectDem
    \/ ApplyAoiMetric
    \/ LightCarve
    \/ SlopeDegrees
    \/ D8FlowDirection
    \/ AccInit
    \/ AccStep
    \/ AccReturn
    \/ ComputeLS
    \/ ClampMetric
    \/ ReprojectBack
    \/ ReapplyAoi
    \/ FinalClamp
    \/ Save
    \/ Preview
    \/ ExportStats

SpecMain == InitMain /\ [][NextMain]_vars

\* the no-data value of 16-bit DEM files
INT16_MIN == -(2 ^ 15)

\* the no-data values a DEM file may declare: none, NODATA_F, another one
NodataInputs == {<<>>, <<NODATA_F>>, <<INT16_MIN>>}

\* main() from the reading of its inputs to the hand-over of the metric DEM
\* to light_carve, for every declared no-data value
InitReproject ==
    /\ shape \in Shapes
    /\ geom \in Geoms
    /\ dem_exists = TRUE
    /\ nodata_ll \in NodataInputs
    /\ dem_ll \in DemFiles(LLShape(geom, shape[1], shape[2])[1],
                           LLShape(geom, shape[1], shape[2])[2],
                           MaxReliefMain, nodata_ll)
    /\ aoi_exists \in BOOLEAN
    /\ aoi_ll \in IF aoi_exists
                  THEN AoiInputs(LLShape(geom, shape[1], shape[2])[1],
                                 LLShape(geom, shape[1], shape[2])[2])
                  ELSE {<<>>}
    /\ dem_m = Flat(shape[1], shape[2], NaN)
    /\ dem_carved = Flat(shape[1], shape[2], NaN)
    /\ slope_deg = Flat(shape[1], shape[2], NaN)
    /\ dir_idx = Flat(shape[1], shape[2], -1)
    /\ indeg = Flat(shape[1], shape[2], 0)
    /\ acc = Flat(shape[1], shape[2], 1)
    /\ q = <<>>
    /\ popped = <<>>
    /\ ls_m = Flat(shape[1], shape[2], MASKED)
    /\ ls_match = <<>>
    /\ ls_tif = <<>>
    /\ written = {}
    /\ log = {}
    /\ ret = ""
    /\ LoaderIdle
    /\ CrsIdle
    /\ pc = "read"

NextReproject == ReadInputs \/ ReprojectDem \/ ApplyAoiMetric

SpecReproject == InitReproject /\ [][NextReproject]_vars

\* main() from line 477 on, for every LS grid compute_ls might hand over,
\* and from line 499 on, for every LS grid the reprojection might hand over
InitClamp ==
    /\ shape \in Shapes
    /\ geom \in Geoms
    /\ dem_exists = TRUE
    /\ nodata_ll = <<NODATA_F>>
    /\ dem_ll = Flat(LLShape(geom, shape[1], shape[2])[1],
                     LLShape(geom, shape[1], shape[2])[2], 0)
    /\ aoi_exists \in BOOLEAN
    /\ aoi_ll \in IF aoi_exists
                  THEN {Binary(a) :
                            a \in AoiInputs(LLShape(geom, shape[1], shape[2])[1],
                                            LLShape(geom, shape[1], shape[2])[2])}
                  ELSE {<<>>}
    /\ dem_m = Flat(shape[1], shape[2], 0)
    /\ dem_carved = dem_m
    /\ slope_deg = Flat(shape[1], shape[2], NaN)
    /\ dir_idx = Flat(shape[1], shape[2], -1)
    /\ indeg = Flat(shape[1], shape[2], 0)
    /\ acc = Flat(shape[1], shape[2], 1)
    /\ q = <<>>
    /\ popped = <<>>
    /\ \/ /\ pc = "clamp"
          /\ ls_m \in LsInputs(shape[1], shape[2])
          /\ ls_match = <<>>
       \/ /\ pc = "reapply_aoi"
          /\ ls_m = Flat(shape[1], shape[2], MASKED)
          /\ ls_match \in LsInputs(LLShape(geom, shape[1], shape[2])[1],
                                   LLShape(geom, shape[1], shape[2])[2])
    /\ ls_tif = <<>>
    /\ written = {}
    /\ log = {}
    /\ ret = ""
    /\ LoaderIdle
    /\ CrsIdle

NextClamp ==
    \/ ClampMetric
    \/ ReprojectBack
    \/ ReapplyAoi
    \/ FinalClamp
    \/ Save
    \/ Preview
    \/ ExportStats

SpecClamp == InitClamp /\ [][NextClamp]_vars

\* utm_epsg_from_lonlat for the centre of a DEM anywhere on the globe
InitUtm ==
    /\ center_lon \in (-180 * PerDegree) .. (180 * PerDegree)
    /\ center_lat \in {-90 * PerDegree, -1, 0, 1, 90 * PerDegree}
    /\ metric_epsg = <<>>
    /\ shape = <<3, 3>>
    /\ dem_m = Flat(3, 3, 0)
    /\ dem_carved = dem_m
    /\ slope_deg = Flat(3, 3, NaN)
    /\ dir_idx = Flat(3, 3, -1)
    /\ indeg = Flat(3, 3, 0)
    /\ acc = Flat(3, 3, 1)
    /\ q = <<>>
    /\ popped = <<>>
    /\ ls_m = Flat(3, 3, MASKED)
    /\ IoIdle
    /\ LoaderIdle
    /\ pc = "pick"

NextUtm == PickMetricCrs

SpecUtm == InitUtm /\ [][NextUtm]_vars

\* load_factor on a raster that is on the DEM grid, twice
InitLoad ==
    /\ shape \in Shapes
    /\ factor \in FactorInputs(shape[1], shape[2])
    /\ allow_zero \in BOOLEAN
    /\ aligned = <<>>
    /\ realigned = <<>>
    /\ geom = "aligned"
    /\ dem_exists = TRUE
    /\ nodata_ll \in {<<>>, <<NODATA>>}
    /\ dem_ll \in IF nodata_ll = <<>>
                  THEN {Flat(shape[1], shape[2], 0)}
                  ELSE RowDems(shape[1], shape[2], NODATA * Unit)
    /\ aoi_exists \in BOOLEAN
    /\ aoi_ll \in IF aoi_exists
                  THEN {Binary(a) : a \in AoiInputs(shape[1], shape[2])}
                  ELSE {<<>>}
    /\ dem_m = Flat(shape[1], shape[2], NaN)
    /\ dem_carved = Flat(shape[1], shape[2], NaN)
    /\ slope_deg = Flat(shape[1], shape[2], NaN)
    /\ dir_idx = Flat(shape[1], shape[2], -1)
    /\ indeg = Flat(shape[1], shape[2], 0)
    /\ acc = Flat(shape[1], shape[2], 1)
    /\ q = <<>>
    /\ popped = <<>>
    /\ ls_m = Flat(shape[1], shape[2], MASKED)
    /\ ls_match = <<>>
    /\ ls_tif = <<>>
    /\ written = {}
    /\ log = {}
    /\ ret = ""
    /\ CrsIdle
    /\ pc = "load"

NextLoad == LoadFactor \/ ReloadFactor

SpecLoad == InitLoad /\ [][NextLoad]_vars

\* ------------------------------------------------- vocabulary of the claims
\* d8_flow_direction has run
DirKnown == pc \in {"acc_init", "acc_loop", "done", "IndexError", "clamp"}

Border(c) == c[1] \in {0, H - 1} \/ c[2] \in {0, W - 1}

\* the in-grid cells that touch c
Nbr8(c) ==
    {n \in Cells(H, W) :
        /\ n # c
        /\ n[1] - c[1] \in {-1, 0, 1}
        /\ n[2] - c[2] \in {-1, 0, 1}}

ValidNbr8(z, c) == {n \in Nbr8(c) : z[n] # NaN}

\* the cell that c points at (c has a direction)
Target(c) == Offset(c, dir_idx[c])

PointsInGrid(c) == dir_idx[c] >= 0 => Target(c) \in Cells(H, W)

Terminal(c) == dir_idx[c] < 0

\* the cells on the flow path that starts at c (c included), followed for
\* at most n steps
RECURSIVE Path(_, _)
Path(c, n) ==
    IF Terminal(c) \/ n = 0 \/ Target(c) \notin Cells(H, W) THEN {c}
    ELSE {c} \cup Path(Target(c), n - 1)

\* following the directions from c ends at a terminal cell
RECURSIVE Drains(_, _)
Drains(c, n) ==
    IF Terminal(c) THEN TRUE
    ELSE IF n = 0 \/ Target(c) \notin Cells(H, W) THEN FALSE
    ELSE Drains(Target(c), n - 1)

Acyclic == \A c \in Cells(H, W) : PointsInGrid(c) /\ Drains(c, H * W)

\* some cell is reached again by following the directions from itself
HasCycle ==
    \E c \in Cells(H, W) :
        /\ ~Terminal(c)
        /\ Target(c) \in Cells(H, W)
        /\ c \in Path(Target(c), H * W)

\* only cells off the border have a direction
InteriorOnly == \A c \in Cells(H, W) : Border(c) => Terminal(c)

Upstream(c) == {d \in Cells(H, W) : c \in Path(d, H * W)}

Pointers(c) == {s \in Cells(H, W) : ~Terminal(s) /\ Target(s) = c}

\* ------------------------------------------------------------------ claims
\* C1 as stated: conservation.  For every acyclic direction grid in which
\* each cell is undefined or points at an in-grid neighbour, the returned
\* accumulation summed over the terminal cells equals the number of cells.
C1_ConservationAnyGrid ==
    (pc = "done" /\ Acyclic) =>
        SumOver(acc, {c \in Cells(H, W) : Terminal(c)}) = H * W

\* C1: conservation holds for every acyclic direction grid whose border cells
\* are undefined (only cells with 8 in-grid neighbours have a direction): the
\* returned accumulation summed over the terminal cells is the cell count.
C1_Conservation ==
    (pc = "done" /\ Acyclic /\ InteriorOnly) =>
        SumOver(acc, {c \in Cells(H, W) : Terminal(c)}) = H * W

\* an interior chain a -> b -> c has been accumulated into its sink
C1_Witness ==
    /\ pc = "done" /\ Acyclic /\ InteriorOnly
    /\ \E a, b \in Cells(H, W) :
        /\ ~Terminal(a) /\ Target(a) = b /\ ~Terminal(b)
        /\ acc[Target(b)] = 3

\* C2: on a direction grid produced by d8_flow_direction the returned value
\* of every cell is the number of cells whose flow path passes through it,
\* which is 1 plus the returned values of the cells that point at it.
C2_CountsUpstream ==
    pc = "done" =>
        \A c \in Cells(H, W) :
            /\ acc[c] = Cardinality(Upstream(c))
            /\ acc[c] = 1 + SumOver(acc, Pointers(c))

\* a chain of two steps and a confluence of two cells have been accumulated
C2_Witness ==
    /\ pc = "done"
    /\ \E a, b \in Cells(H, W) :
        /\ ~Terminal(a) /\ Target(a) = b /\ ~Terminal(b)
        /\ acc[Target(b)] >= 3
    /\ \E c \in Cells(H, W) : Cardinality(Pointers(c)) >= 2

\* C3: a direction grid with a cycle among its interior cells (border cells
\* undefined) makes flow_accumulation_cells report a fatal error; it never
\* returns an accumulation grid for it.
C3_CycleIsFatal == (HasCycle /\ InteriorOnly) => pc # "done"

\* C4: every direction d8_flow_direction defines points at an in-grid,
\* valid neighbour that is not higher than the cell itself.
C4_NeverUphill ==
    DirKnown =>
        \A c \in Cells(H, W) :
            dir_idx[c] >= 0 =>
                /\ Target(c) \in Nbr8(c)
                /\ dem_carved[Target(c)] # NaN
                /\ dem_carved[Target(c)] <= dem_carved[c]

\* a directed cell that has a no-data neighbour earlier in the scan order
\* than the neighbour it points at
C4_Witness ==
    /\ DirKnown
    /\ \E c \in Cells(H, W) :
        /\ dir_idx[c] >= 0
        /\ \E k \in 0 .. 7 :
            /\ k < dir_idx[c]
            /\ dem_carved[Offset(c, k)] = NaN

\* the drops from c to its valid neighbours
Drops(z, c) == {z[c] - z[n] : n \in ValidNbr8(z, c)}

MaxOf(S) == CHOOSE m \in S : \A x \in S : x <= m

\* C5: a valid interior cell points at a neighbour of largest drop when that
\* drop is positive, and is undefined exactly when no valid neighbour is
\* strictly lower.
C5_SteepestDescent ==
    DirKnown =>
        \A c \in Interior(H, W) :
            dem_carved[c] # NaN =>
                LET drops == Drops(dem_carved, c)
                    downhill == \E d \in drops : d > 0
                IN  /\ downhill =>
                          /\ dir_idx[c] >= 0
                          /\ dem_carved[c] - dem_carved[Target(c)] = MaxOf(drops)
                    /\ dir_idx[c] = -1 <=> ~downhill

\* a cell with two different positive drops, and a valid cell with none
C5_Witness ==
    /\ DirKnown
    /\ \E c \in Interior(H, W) :
        /\ dem_carved[c] # NaN
        /\ \E d1, d2 \in Drops(dem_carved, c) : 0 < d1 /\ d1 < d2
    /\ \E c \in Interior(H, W) :
        /\ dem_carved[c] # NaN
        /\ dir_idx[c] = -1

\* C6: every no-data cell and every border cell has direction -1.
C6_BorderAndNoDataUndefined ==
    DirKnown =>
        \A c \in Cells(H, W) :
            (dem_carved[c] = NaN \/ Border(c)) => dir_idx[c] = -1

\* a border cell with a strictly lower valid neighbour, and an interior
\* no-data cell, while some cell does get a direction
C6_Witness ==
    /\ DirKnown
    /\ \E c \in Cells(H, W) :
        /\ Border(c) /\ dem_carved[c] # NaN
        /\ \E n \in ValidNbr8(dem_carved, c) : dem_carved[n] < dem_carved[c]
    /\ \E c \in Interior(H, W) : dem_carved[c] = NaN
    /\ \E c \in Cells(H, W) : dir_idx[c] >= 0

\* the offsets k whose neighbour of c is valid and has the maximal drop
Steepest(z, c) ==
    {k \in 0 .. 7 :
        /\ z[Offset(c, k)] # NaN
        /\ z[c] - z[Offset(c, k)] = MaxOf(Drops(z, c))}

\* C7: among the neighbours that share the maximal positive drop the first
\* in the order NW, N, NE, W, E, SW, S, SE is the one chosen.
C7_FirstOfTies ==
    DirKnown =>
        \A c \in Interior(H, W) :
            dir_idx[c] >= 0 =>
                /\ dir_idx[c] \in Steepest(dem_carved, c)
                /\ \A k \in Steepest(dem_carved, c) : dir_idx[c] <= k

\* a cell with at least two steepest neighbours
C7_Witness ==
    /\ DirKnown
    /\ \E c \in Interior(H, W) :
        /\ dir_idx[c] >= 0
        /\ Cardinality(Steepest(dem_carved, c)) >= 2

\* C8 as stated: on the 3x3 scenario DEM the outlet accumulates 9.
C8_OutletIs9 ==
    (pc = "done" /\ dem_carved = Dem3x3) => acc[<<2, 2>>] = 9

\* C8: on the 3x3 scenario DEM only the centre cell gets a direction (the
\* other eight are border cells), it points at the outlet, and the outlet
\* accumulates exactly 2; every other cell keeps 1.
C8_OutletIs2 ==
    (pc = "done" /\ dem_carved = Dem3x3) =>
        /\ dir_idx[<<1, 1>>] = 7
        /\ acc[<<2, 2>>] = 2
        /\ \A c \in Cells(3, 3) \ {<<2, 2>>} : acc[c] = 1

\* the scenario DEM has been routed and accumulated
C8_Witness == pc = "done" /\ dem_carved = Dem3x3

\* C9: every cell of the returned accumulation grid is at least 1, for
\* every direction grid.
C9_AtLeastOne ==
    pc = "done" => \A c \in Cells(H, W) : acc[c] >= 1

\* a grid with a directed border cell has been accumulated and returned
C9_Witness ==
    /\ pc = "done"
    /\ \E c \in Cells(H, W) : Border(c) /\ ~Terminal(c) /\ acc[Target(c)] >= 2

\* p is lower than all 8 neighbours
IsPit(z, p) == \A n \in Nbr8(p) : z[n] > z[p]

\* z has no no-data and exactly one pit, an interior one
OnePit(z, p) ==
    /\ ~HasNaN(z)
    /\ p \in Interior(H, W)
    /\ \A c \in Cells(H, W) : IsPit(z, c) <=> c = p

\* C10: a DEM with exactly one isolated single-cell interior pit and no
\* no-data has, after light_carve and d8_flow_direction, a defined direction
\* at the pit cell.
C10_PitGetsDirection ==
    DirKnown =>
        \A p \in Cells(H, W) : OnePit(dem_m, p) => dir_idx[p] # -1

\* light_carve has returned
Carved == pc \in {"slope", "d8"} \/ DirKnown

\* p is valid, has 8 valid neighbours, and none of them is lower or equal
InteriorPit(z, p) ==
    /\ p \in Interior(H, W)
    /\ z[p] # NaN
    /\ \A n \in Nbr8(p) : z[n] # NaN /\ z[n] > z[p]

\* C11: in the grid light_carve returns, every interior cell that had no
\* lower-or-equal neighbour in the input (a pit) is higher than it was in
\* the input.
C11_PitsRaised ==
    Carved =>
        \A p \in Cells(H, W) :
            InteriorPit(dem_m, p) => dem_carved[p] > dem_m[p]

\* C12: every cell that is no-data in the input of light_carve is no-data
\* in its output.
C12_NoDataStaysNoData ==
    Carved =>
        \A c \in Cells(H, W) : dem_m[c] = NaN => dem_carved[c] = NaN

\* compute_ls has returned the metric LS grid
LSKnown == pc = "clamp"

\* C14: a cell that is still no-data in the elevation grid after depression
\* filling holds no-data or 0 in the LS grid built from slope_degrees,
\* flow_accumulation_cells and compute_ls, never a positive LS value.
C14_NoDataGivesNoLS ==
    LSKnown =>
        \A c \in Cells(H, W) :
            dem_carved[c] = NaN =>
                ls_m[c] \in {MASKED, FNaN, Lit(NODATA_F), Lit(0)}

\* the DEM is one valid elevation everywhere
IsFlat(z) == z[<<0, 0>>] # NaN /\ \A c \in DOMAIN z : z[c] = z[<<0, 0>>]

\* C15: on a perfectly flat DEM without no-data every cell has an undefined
\* flow direction, accumulation 1 and slope 0 (the masked border included,
\* which compute_ls fills with 0), and compute_ls returns the same constant
\* at every cell: the LS value of accumulation 1 at the minimum-slope floor.
C15_FlatGivesConstant ==
    (LSKnown /\ IsFlat(dem_m)) =>
        \A c \in Cells(H, W) :
            /\ dir_idx[c] = -1
            /\ acc[c] = 1
            /\ slope_deg[c] \in {0, NaN}
            /\ slope_deg[c] = NaN <=> Border(c)
            /\ ls_m[c] = LS(1 * dst_res_m, MIN_SLOPE_DEG)
            /\ ls_m[c] = ls_m[<<0, 0>>]

\* a flat 4x4 DEM has gone through compute_ls, and its LS value is positive
C15_Witness ==
    /\ LSKnown
    /\ IsFlat(dem_m)
    /\ shape = <<4, 4>>
    /\ ls_m[<<1, 1>>][1] > 0 /\ ls_m[<<1, 1>>][2] > 0

\* the LS raster has been persisted
Persisted == "ls_factor.tif" \in written

\* main has returned True
Succeeded == pc = "returned" /\ ret = "True"

\* a float that is finite and not below zero
FiniteNonNegative(v) == v # FNaN /\ v # MASKED /\ ~Negative(v)

\* C13: once main has completed successfully, every cell of the persisted
\* LS raster is the no-data sentinel or a finite value >= 0.
C13_PersistedNonNegative ==
    Succeeded =>
        /\ Persisted
        /\ DOMAIN ls_tif = Cells(HL, WL)
        /\ \A c \in Cells(HL, WL) :
            ls_tif[c] = Lit(NODATA_F) \/ FiniteNonNegative(ls_tif[c])

\* a successful run has persisted a raster with sentinel cells (outside
\* the AOI) next to positive LS values
C13_Witness ==
    /\ Succeeded
    /\ \E c \in Cells(HL, WL) : ls_tif[c] = Lit(NODATA_F)
    /\ \E c \in Cells(HL, WL) : ls_tif[c][1] > 0 /\ ls_tif[c][2] > 0

\* main is past the reprojection of the DEM and of the AOI mask
Reprojected == pc \notin {"main", "read", "reproject", "aoi_m"} /\ dem_exists

\* no cell of the reprojected DEM received a valid value
EmptyDem ==
    \A c \in Cells(H, W) :
        project_dem(dem_ll, nodata_ll, geom, H, W)[c] = NaN

\* no cell of the reprojected AOI mask is inside
EmptyAoi ==
    /\ aoi_exists
    /\ \A c \in Cells(H, W) : reproject_mask(aoi_ll, geom, H, W)[c] = 0

\* C16: when a reprojection has yielded an empty result, the run reports it
\* and aborts: no terrain stage runs on the grid, nothing is persisted, and
\* main does not return success.
C16_EmptyReprojectionAborts ==
    (Reprojected /\ (EmptyDem \/ EmptyAoi)) =>
        /\ pc \in {"carve", "returned"}
        /\ written = {}
        /\ pc = "returned" =>
            /\ ret = "False"
            /\ \E e \in log : e[1] = "error"

\* C17: when the DEM file is missing, main logs an error and returns False
\* before any stage runs, and writes no LS raster, preview figure or
\* statistics file.
C17_MissingDemAborts ==
    ~dem_exists =>
        /\ pc \in {"main", "returned"}
        /\ written = {}
        /\ ls_tif = <<>>
        /\ dem_m = Flat(H, W, NaN)
        /\ ls_m = Flat(H, W, MASKED)
        /\ pc = "returned" =>
            /\ ret = "False"
            /\ log = {<<"error", "DEM not found", 0>>}

\* main has returned for a missing DEM file
C17_Witness == ~dem_exists /\ pc = "returned"

\* C18: when an AOI mask on the DEM grid is supplied, every cell outside the
\* mask holds the no-data sentinel in the persisted LS raster, also when
\* the mask was empty on the metric grid and ignored there.
C18_OutsideAoiIsNoData ==
    (Persisted /\ aoi_exists) =>
        \A c \in Cells(HL, WL) :
            aoi_ll[c] = 0 => ls_tif[c] = Lit(NODATA_F)

\* a raster has been persisted with cells inside the AOI that hold a
\* positive value and cells outside it for which the metric grid had a
\* positive value too
C18_Witness ==
    /\ Persisted /\ aoi_exists
    /\ \E c \in Cells(HL, WL) : aoi_ll[c] = 1 /\ ls_tif[c][1] > 0
    /\ \E c \in Cells(HL, WL) :
        /\ aoi_ll[c] = 0
        /\ ls_m[SrcOfLL(geom, c)][1] > 0
        /\ ls_tif[c] = Lit(NODATA_F)

\* reproject_raster has returned the metric DEM and main has masked it
DemReprojected == pc \in {"aoi_m", "carve"}

\* C19: every cell that is no-data in the source DEM is no-data in the
\* metric DEM main hands to light_carve, whatever no-data value the DEM
\* file declares (the value that fills the masked cells being the one the
\* reprojection is given as source no-data).
C19_NoDataSurvivesReprojection ==
    DemReprojected =>
        \A c \in Cells(H, W) :
            (SrcOfMetric(geom, c) # <<>> /\ dem_ll[SrcOfMetric(geom, c)] = NaN)
                => dem_m[c] = NaN

\* C20: aligning with load_factor a raster that is on the target grid, and
\* aligning the result again with the same grid, AOI mask and zero policy,
\* returns the grid of the first alignment.
C20_AlignmentIdempotent == pc = "loaded" => realigned = aligned

\* a raster has been aligned twice, and the first alignment rounded a value
\* to float32, replaced a value by the sentinel and kept a zero
C20_Witness ==
    /\ pc = "loaded"
    /\ \E c \in Cells(H, W) :
        factor[c] = Lit(2 ^ 24 + 1) /\ aligned[c] = Lit(2 ^ 24)
    /\ \E c \in Cells(H, W) :
        factor[c] \in {Lit(-1), Lit(0), FNaN} /\ aligned[c] = Lit(NODATA)

\* ---- the traversal of flow_accumulation_cells
\* the while loop is running or has ended
Traversing == pc \in {"acc_loop", "done"}

\* the cells taken off the queue so far
Popped == {popped[i] : i \in DOMAIN popped}

\* every cell put on the queue so far, in that order: the queue is first-in
\* first-out, so these are the cells taken off followed by those still on it
Enqueued == popped \o q

\* C21: drain order.  On a direction grid produced by d8_flow_direction a
\* cell is taken off the queue only after every cell that points at it has
\* been taken off, so the value it propagates is its final value (the number
\* of cells that drain through it).
C21_DrainOrder ==
    Traversing =>
        /\ \A i \in DOMAIN popped :
            Pointers(popped[i]) \subseteq {popped[j] : j \in 1 .. i - 1}
        /\ \A i \in DOMAIN q : Pointers(q[i]) \subseteq Popped
        /\ \A c \in Popped : acc[c] = Cardinality(Upstream(c))

\* the traversal is under way and has taken off the queue a cell that two
\* cells point at, and a cell at the end of a chain of two steps
C21_Witness ==
    /\ pc = "acc_loop"
    /\ \E c \in Popped : Cardinality(Pointers(c)) >= 2
    /\ \E b \in Popped :
        /\ ~Terminal(b) /\ Target(b) \in Popped
        /\ \E a \in Pointers(b) : TRUE

\* no cell occurs twice in the sequence
NoDup(sq) == \A i, j \in DOMAIN sq : sq[i] = sq[j] => i = j

\* C22: on a direction grid produced by d8_flow_direction no cell is put on
\* the queue twice, the traversal ends by returning (no index error), and
\* when it ends every cell of the grid has been put on the queue and taken
\* off it exactly once.
C22_EveryCellOnce ==
    /\ pc # "IndexError"
    /\ Traversing => NoDup(Enqueued)
    /\ pc = "done" =>
        /\ q = <<>>
        /\ Len(popped) = H * W
        /\ Popped = Cells(H, W)

\* a traversal has ended on a 4x4 grid in which a cell was put on the queue
\* by the loop (it was not a seed) and border and no-data cells were seeds
C22_Witness ==
    /\ pc = "done"
    /\ shape = <<4, 4>>
    /\ \E c \in Cells(H, W) : Pointers(c) # {}
    /\ \E c \in Cells(H, W) : dem_carved[c] = NaN

\* every defined direction points at a cell of the grid
InGrid == \A c \in Cells(H, W) : PointsInGrid(c)

\* C23: on every direction grid whose defined directions point at in-grid
\* neighbours, cyclic ones included, no cell is put on the queue twice, no
\* index error occurs, and flow_accumulation_cells returns.
C23_Terminates ==
    /\ []((InGrid /\ Traversing) => NoDup(Enqueued))
    /\ [](InGrid => pc # "IndexError")
    /\ (InGrid ~> pc = "done")

\* the function has returned on a grid with a cycle, and on a grid in which
\* a border cell points at a seed
C23_Witness ==
    /\ pc = "done"
    /\ InGrid
    /\ \/ HasCycle
       \/ \E c \in Cells(H, W) :
            /\ Border(c) /\ ~Terminal(c)
            /\ indeg[Target(c)] < 0

\* slope_degrees has returned
SlopeKnown == pc = "d8" \/ DirKnown

NegativeCells(a) == {c \in DOMAIN a : a[c] # MASKED /\ a[c][2] = 0 /\ a[c][1] < 0}

\* the entries a step adds to the log
Logged == log' \ log

\* C25: at both clamps (after compute_ls, after the reprojection back) every
\* negative value becomes zero and every other cell is kept; a warning that
\* carries the number of negative cells is logged exactly when that number
\* is not zero; the run goes on, and when main returns it has persisted the
\* raster, without a negative value other than the sentinel, and returns
\* True.
C25_NegativesClamped ==
    /\ [][/\ pc = "clamp" =>
                /\ \A c \in Cells(H, W) :
                    ls_m'[c] = IF c \in NegativeCells(ls_m)
                               THEN Lit(0) ELSE ls_m[c]
                /\ Logged =
                    IF NegativeCells(ls_m) = {} THEN {}
                    ELSE {<<"warning", "Negative LS values detected",
                            Cardinality(NegativeCells(ls_m))>>}
                /\ pc' = "reproject_back"
          /\ pc = "final_clamp" =>
                /\ \A c \in Cells(HL, WL) :
                    ls_match'[c] = IF c \in NegativeCells(ls_match)
                                   THEN Lit(0) ELSE ls_match[c]
                /\ Logged =
                    IF NegativeCells(ls_match) = {} THEN {}
                    ELSE {<<"warning", "Negative LS values after reprojection",
                            Cardinality(NegativeCells(ls_match))>>}
                /\ pc' = "save"]_vars
    /\ [](pc = "returned" =>
            /\ ret = "True"
            /\ Persisted
            /\ \A c \in Cells(HL, WL) :
                ls_tif[c] = Lit(NODATA_F) \/ ~Negative(ls_tif[c]))

\* main has returned after a clamp that corrected two cells or more, next
\* to cells that it kept
C25_Witness ==
    /\ Succeeded
    /\ \E e \in log : e[1] = "warning" /\ e[3] >= 2
    /\ \E c \in Cells(HL, WL) : ls_tif[c] = Lit(0)
    /\ \E c \in Cells(HL, WL) : ls_tif[c][1] > 0 /\ ls_tif[c][2] > 0

\* the codes of the UTM zones: EPSG:32601..32660 north, 32701..32760 south
UtmNorth == {<<"EPSG", 32600 + z>> : z \in 1 .. 60}
UtmSouth == {<<"EPSG", 32700 + z>> : z \in 1 .. 60}

\* C26: for every longitude in [-180, 180] and every latitude the code
\* utm_epsg_from_lonlat returns is that of a UTM zone, northern when the
\* latitude is >= 0 and southern when it is < 0, the zone being
\* floor((lon + 180) / 6) + 1 and lying within 1..60.
C26_ValidUtm ==
    pc = "picked" =>
        LET zone == ((center_lon + 180 * PerDegree) \div (6 * PerDegree)) + 1
        IN  /\ zone \in 1 .. 60
            /\ center_lat >= 0 =>
                metric_epsg = <<"EPSG", 32600 + zone>> /\ metric_epsg \in UtmNorth
            /\ center_lat < 0 =>
                metric_epsg = <<"EPSG", 32700 + zone>> /\ metric_epsg \in UtmSouth

\* C27: the flow graph d8_flow_direction produces is acyclic for every
\* elevation grid: every direction points into the grid, following the
\* directions from any cell reaches a cell without direction within h*w
\* steps, and no cell is reached again from itself.
C27_D8Acyclic == DirKnown => (Acyclic /\ ~HasCycle)

\* a grid with a flow path of two steps
C27_Witness ==
    /\ DirKnown
    /\ \E a \in Cells(H, W) :
        /\ ~Terminal(a)
        /\ ~Terminal(Target(a))
        /\ Cardinality(Path(a, H * W)) = 3

Manhattan(a, b) ==
    (IF a[1] >= b[1] THEN a[1] - b[1] ELSE b[1] - a[1])
        + (IF a[2] >= b[2] THEN a[2] - b[2] ELSE b[2] - a[2])

\* c lies within distance d of a cell that is valid in the input
Within(c, d) ==
    \E v \in Cells(H, W) : dem_m[v] # NaN /\ Manhattan(c, v) <= d

MeanOver(arr, S) == SumOver(arr, S) \div Cardinality(S)

C30_InDegreeInvariant ==
    Traversing =>
        /\ \A c \in Cells(H, W) :
            /\ indeg[c] = Cardinality(Pointers(c) \ Popped)
            /\ indeg[c] >= 0
        /\ \A i \in DOMAIN q : indeg[q[i]] = 0
        /\ pc = "done" => \A c \in Cells(H, W) : indeg[c] = 0

\* the loop is half-way through a confluence: of two cells that point at
\* the same cell one has been taken off the queue, the other has not
C30_Witness ==
    /\ pc = "acc_loop"
    /\ \E c \in Cells(H, W) :
        /\ indeg[c] = 1
        /\ Cardinality(Pointers(c)) = 2
        /\ Pointers(c) \cap Popped # {}

=============================================================================
